---- MODULE Spec2Model ----
(***************************************************************************)
(* The parameter-to-option binding and the invocation pipeline of the      *)
(* command line interface:                                                 *)
(*   pyqi/core/interface.py   Interface, InterfaceOption                   *)
(*   qcli/interface/cli.py    CLInterface, ParameterConversion,            *)
(*                            OutputHandler                                *)
(*                                                                         *)
(* Three specifications share the variables:                               *)
(*   SpecOption     InterfaceOption.__init__ on every argument combination *)
(*   SpecConstruct  CLInterface.__init__ / Interface.__init__              *)
(*   Spec           Interface.__call__ on a constructed interface          *)
(*                                                                         *)
(* Python values are sequences of strings so that they compare: None is    *)
(* the empty sequence, a token "x" is <<"x">>, and an input transform      *)
(* named h applied to v is <<h>> \o v (an uninterpreted function).         *)
(* A missing name (None where a string is expected) is the string "None".  *)
(***************************************************************************)
EXTENDS Integers, Sequences, FiniteSets, TLC

VARIABLES
    optArgs,                     \* arguments of the last InterfaceOption(...)
    option,                      \* the InterfaceOption object and how __init__ ended
    config,                      \* what the subclass hooks and class attributes return
    built,                       \* how far CLInterface.__init__ got and how it ended
    Options,                     \* self.Options
    UsageExamples,               \* self.UsageExamples
    ParameterConversionInfo,     \* self.ParameterConversionInfo
    CmdInstance,                 \* self.CmdInstance
    BelovedFunctionality,        \* self.BelovedFunctionality
    in_,                         \* argument of the last __call__
    outcome                      \* what the last __call__ did; replaced: it stored
                                 \* values other than those an earlier call left

vars == <<optArgs, option, config, built, Options, UsageExamples,
          ParameterConversionInfo, CmdInstance, BelovedFunctionality,
          in_, outcome>>

ifaceVars == <<config, built, Options, UsageExamples, ParameterConversionInfo,
               CmdInstance, BelovedFunctionality, in_, outcome>>

optVars == <<optArgs, option>>

----------------------------------------------------------------------------
(* Values *)

None == <<>>

NoneStr == "None"

Range(s) == {s[i] : i \in 1..Len(s)}

EmptyMap == [n \in {} |-> None]

----------------------------------------------------------------------------
(* InterfaceOption.__init__  (pyqi/core/interface.py 135-185) *)

\* "Parameter=None": a record whose Name is the missing name.
NoParameter ==
    [Name |-> NoneStr, Description |-> NoneStr, Required |-> FALSE, Default |-> None]

\* Name.replace('_', '-') on the names of OptionNames.
Dashed(name) ==
    IF name = "in_fp" THEN "in-fp" ELSE name

\* Mutant of OptionRequired: the parameter's flag alone decides.
OptionRequired_ParameterOnly(parameterRequired, Required) ==
    parameterRequired

\* Lines 166-169.
OptionRequired(parameterRequired, Required) ==
    IF ~parameterRequired /\ Required THEN TRUE ELSE parameterRequired

\* Line 159.
OptionDefault(parameterDefault, Default) ==
    IF Default = None THEN parameterDefault ELSE Default

\* The attributes before anything is assigned.
BlankOption ==
    [Parameter |-> NoneStr, Name |-> NoneStr, Help |-> NoneStr,
     Required |-> FALSE, Default |-> None]

\* Mutant of RequiredWithDefault: the check is skipped.
RequiredWithDefault_Never(self) ==
    FALSE

\* Line 180: the condition of the raise.
RequiredWithDefault(self) ==
    self.Required /\ self.Default # None

\* Lines 177-185: the dashed name, the required/default check, the subclass hook.
FinishOption(self, convert_to_dashed_name, validate_ok) ==
    LET named == IF convert_to_dashed_name
                 THEN [self EXCEPT !.Name = Dashed(self.Name)]
                 ELSE self
    IN  IF RequiredWithDefault(named)
        THEN [status |-> "IncompetentDeveloperError", error |-> "required_with_default",
              self |-> named]
        ELSE IF ~validate_ok
        THEN [status |-> "ValidationError", error |-> "_validate_option", self |-> named]
        ELSE [status |-> "ok", error |-> NoneStr, self |-> named]

\* Lines 135-185.
InterfaceOption(a) ==
    IF a.Parameter = NoParameter
    THEN IF a.Name = NoneStr
         THEN [status |-> "IncompetentDeveloperError", error |-> "no_name",
               self |-> BlankOption]
         ELSE IF a.Help = NoneStr
         THEN [status |-> "IncompetentDeveloperError", error |-> "no_help",
               self |-> BlankOption]
         ELSE FinishOption([Parameter |-> NoneStr, Name |-> a.Name, Help |-> a.Help,
                            Required |-> a.Required, Default |-> a.Default],
                           a.convert_to_dashed_name, a.validate_ok)
    ELSE FinishOption(
            [Parameter |-> a.Parameter.Name,
             Name      |-> IF a.Name = NoneStr THEN a.Parameter.Name ELSE a.Name,
             Help      |-> IF a.Help = NoneStr THEN a.Parameter.Description ELSE a.Help,
             Required  |-> OptionRequired(a.Parameter.Required, a.Required),
             Default   |-> OptionDefault(a.Parameter.Default, a.Default)],
            a.convert_to_dashed_name, a.validate_ok)

\* The arguments InterfaceOption is tried on.
OptionNames == {NoneStr, "n", "in_fp"}

ParameterDefaults == {None, <<"pd">>}

OverrideDefaults == {None, <<"od">>}

Parameters ==
    [Name : {"p", "in_fp"}, Description : {"ph"}, Required : BOOLEAN,
     Default : ParameterDefaults]

OptionArgs ==
    [Parameter : Parameters \cup {NoParameter}, Name : OptionNames,
     Help : {NoneStr, "h"}, Required : BOOLEAN, Default : OverrideDefaults,
     convert_to_dashed_name : BOOLEAN, validate_ok : BOOLEAN]

NoArgs ==
    [Parameter |-> NoParameter, Name |-> NoneStr, Help |-> NoneStr, Required |-> FALSE,
     Default |-> None, convert_to_dashed_name |-> TRUE, validate_ok |-> TRUE]

NoOption ==
    [status |-> "none", error |-> NoneStr, self |-> BlankOption]

\* One InterfaceOption(...) call.
ConstructOption ==
    /\ \E a \in OptionArgs :
          /\ optArgs' = a
          /\ option' = InterfaceOption(a)
    /\ UNCHANGED ifaceVars

----------------------------------------------------------------------------
(* Interface construction  (qcli/interface/cli.py 148-168, 192-204;          *)
(*                          pyqi/core/interface.py 30-42, 60-75)             *)

\* lines 157-162: the entry every registry starts with.
VerboseConversion ==
    [Name |-> "verbose", LongName |-> "verbose", InHandler |-> NoneStr]

Keys(d) == {d[i].Name : i \in 1..Len(d)}

\* d[key] = entry of a dict kept as a sequence of entries with distinct names.
RECURSIVE DictSet(_, _)
DictSet(d, entry) ==
    IF d = <<>> THEN <<entry>>
    ELSE IF Head(d).Name = entry.Name THEN <<entry>> \o Tail(d)
    ELSE <<Head(d)>> \o DictSet(Tail(d), entry)

\* dict.update (line 164).
RECURSIVE DictUpdate(_, _)
DictUpdate(d, u) ==
    IF u = <<>> THEN d ELSE DictUpdate(DictSet(d, Head(u)), Tail(u))

Lookup(d, key) == (CHOOSE i \in 1..Len(d) : d[i].Name = key)

\* CLOption.fromParameter (lines 103-117) as _option_factory calls it (201-204).
fromParameter(parameter, LongName) ==
    [Parameter |-> parameter.Name, LongName |-> LongName,
     Required |-> parameter.Required, Default |-> parameter.Default]

\* _option_factory (lines 192-204): <<>> when the parameter has no conversion info.
_option_factory(conversions, parameter) ==
    IF parameter.Name \notin Keys(conversions)
    THEN <<>>
    ELSE <<fromParameter(parameter, conversions[Lookup(conversions, parameter.Name)].LongName)>>

\* The options of the command's parameters, in order; the loop over the command's
\* parameters (section 4.4, step 3).
RECURSIVE PromoteAll(_, _)
PromoteAll(conversions, parameters) ==
    IF parameters = <<>> THEN <<>>
    ELSE _option_factory(conversions, Head(parameters))
             \o PromoteAll(conversions, Tail(parameters))

getParameterName(input_) == input_.Parameter

\* lines 68-70.
param_names(inputs) ==
    SelectSeq([i \in 1..Len(inputs) |-> getParameterName(inputs[i])],
              LAMBDA n : n # NoneStr)

\* Mutant of _validate_inputs: options without a Parameter are counted too.
_validate_inputs_CountNone(inputs) ==
    Len(inputs) = Cardinality({getParameterName(inputs[i]) : i \in 1..Len(inputs)})

\* _validate_inputs (lines 60-75): TRUE when it returns, FALSE when it raises.
_validate_inputs(inputs) ==
    Len(param_names(inputs)) = Cardinality(Range(param_names(inputs)))

\* Mutant of HasUsageExamples: the check is skipped.
HasUsageExamples_Always(examples) ==
    TRUE

\* line 153.
HasUsageExamples(examples) ==
    ~(Len(examples) < 1)

Unbuilt ==
    [status |-> "none", error |-> NoneStr, steps |-> <<>>, inputs |-> <<>>,
     Options |-> <<>>, UsageExamples |-> <<>>, ParameterConversionInfo |-> <<>>,
     CmdInstance |-> NoneStr, BelovedFunctionality |-> EmptyMap]

Raise(obj, error) ==
    [obj EXCEPT !.status = "IncompetentDeveloperError", !.error = error]

\* Interface.__init__ (pyqi/core/interface.py 30-42) on the object CLInterface.__init__
\* has prepared; _get_inputs() is the promoted parameters followed by the
\* options the configuration declares without a Parameter.
InterfaceInit(obj, c) ==
    IF c.CommandConstructor = NoneStr
    THEN Raise(obj, "no_command_constructor")
    ELSE LET o1 == [obj EXCEPT !.CmdInstance = c.CommandConstructor,
                               !.steps = @ \o <<"command">>]
             promoted == PromoteAll(o1.ParameterConversionInfo, c.Parameters)
         IN  IF Len(promoted) # Len(c.Parameters)
             THEN Raise(o1, "no_conversion_info")
             ELSE LET inputs == promoted \o c.inputs
                      o2 == [o1 EXCEPT !.steps = @ \o <<"options", "validate_inputs">>,
                                       !.inputs = inputs]
                  IN  IF ~_validate_inputs(inputs)
                      THEN Raise(o2, "duplicate_parameter")
                      ELSE [o2 EXCEPT !.Options = inputs]

\* CLInterface.__init__ (qcli/interface/cli.py 148-168).
CLInterfaceInit(c) ==
    LET o1 == [Unbuilt EXCEPT !.UsageExamples = c.usage_examples,
                              !.steps = <<"usage_examples">>]
    IN  IF ~HasUsageExamples(o1.UsageExamples)
        THEN Raise(o1, "no_usage_examples")
        ELSE LET o2 == [o1 EXCEPT
                          !.ParameterConversionInfo =
                              DictUpdate(<<VerboseConversion>>, c.param_conv_info),
                          !.steps = @ \o <<"conversion_info">>]
                 o3 == InterfaceInit(o2, c)
             IN  IF o3.status # "none"
                 THEN o3
                 ELSE [o3 EXCEPT !.status = "ok",
                                 !.Options = @ \o c.additional_options,
                                 !.steps = @ \o <<"additional_options">>]

----------------------------------------------------------------------------
(* Interface.__call__  (pyqi/core/interface.py 44-47) and the CLInterface     *)
(* handlers (qcli/interface/cli.py 186-190, 206-265, 303-314)                 *)

\* _the_in_validator (lines 186-190): TRUE when it returns, FALSE when it raises.
_the_in_validator(in) ==
    in.isList

\* lines 208-209.
required_opts(options) == SelectSeq(options, LAMBDA opt : opt.Required)

optional_opts(options) == SelectSeq(options, LAMBDA opt : ~opt.Required)

\* The attribute of the parsed values an option is stored under. The flags of this
\* model have no dash, so the parser's dest is the long name itself.
dest(opt) == opt.LongName

\* getOptparseOption (lines 76-101): a required option is declared without a
\* default, an optional one with the option's Default.
ParserDefault(opt) ==
    IF opt.Required THEN None ELSE opt.Default

\* The parser's defaults once the required group (lines 224-232) and then the
\* optional options (235-236) are added.
Defaults(options) ==
    LET added == required_opts(options) \o optional_opts(options)
        last(n) == CHOOSE i \in 1..Len(added) :
                      /\ dest(added[i]) = n
                      /\ \A j \in (i+1)..Len(added) : dest(added[j]) # n
    IN  [n \in {dest(options[i]) : i \in 1..Len(options)} |-> ParserDefault(added[last(n)])]

\* parser.parse_args (line 239): every "--name=value" token stores its value,
\* every other token is left over as a positional argument.
RECURSIVE parse_args(_, _, _)
parse_args(opts, args, argv) ==
    IF argv = <<>> THEN [opts |-> opts, args |-> args]
    ELSE LET t == Head(argv)
         IN  IF t.opt = NoneStr
             THEN parse_args(opts, Append(args, t.val), Tail(argv))
             ELSE parse_args([opts EXCEPT ![t.opt] = t.val], args, Tail(argv))

\* Mutant of HelpRequested: help is printed on an empty list whatever the class says.
HelpRequested_IgnoreFlag(HelpOnNoArguments, argv) ==
    Len(argv) = 0

\* line 220.
HelpRequested(HelpOnNoArguments, argv) ==
    HelpOnNoArguments /\ Len(argv) = 0

\* line 243.
PositionalDetected(DisallowPositionalArguments, args) ==
    DisallowPositionalArguments /\ Len(args) # 0

\* Mutant of PositionalMessage: the last stray token is echoed.
PositionalMessage_Last(args) ==
    [kind |-> "positional_argument", arg |-> args[Len(args)]]

\* lines 244-246.
PositionalMessage(args) ==
    [kind |-> "positional_argument", arg |-> args[1]]

\* Mutant of MissingRequired: a None value is taken as supplied.
MissingRequired_Never(options, opts) ==
    <<>>

\* lines 249-254: the ids of the required options whose value is None, in the
\* order of the required group; the first one is reported.
MissingRequired(options, opts) ==
    LET required_option_ids ==
            [i \in 1..Len(required_opts(options)) |-> dest(required_opts(options)[i])]
    IN  SelectSeq(required_option_ids, LAMBDA id : opts[id] = None)

\* v.InHandler(value)
Apply(InHandler, value) == <<InHandler>> \o value

\* Mutant of StoreParsed: values already stored are kept.
StoreParsed_KeepOld(beloved, opts) ==
    [n \in DOMAIN opts |-> IF n \in DOMAIN beloved THEN beloved[n] ELSE opts[n]]

\* lines 256-257: the stored mapping is replaced by the parsed one.
StoreParsed(beloved, opts) ==
    opts

\* lines 258-264: the loop over the conversion info, one entry at a time.
RECURSIVE ApplyInHandlers(_, _)
ApplyInHandlers(beloved, conversions) ==
    IF conversions = <<>> THEN [status |-> "ok", BelovedFunctionality |-> beloved]
    ELSE LET v == Head(conversions)
         IN  IF v.InHandler = NoneStr
             THEN ApplyInHandlers(beloved, Tail(conversions))
             ELSE IF v.LongName \notin DOMAIN beloved
             THEN [status |-> "KeyError", BelovedFunctionality |-> beloved]
             ELSE ApplyInHandlers(
                      [beloved EXCEPT ![v.LongName] = Apply(v.InHandler, @)],
                      Tail(conversions))

NoMessage == [kind |-> NoneStr, arg |-> None]

\* parser.exit(-1) after print_usage (221-222), parser.error (244, 253): SystemExit.
Exit(beloved, stage, status, message) ==
    [status |-> "Aborted", stage |-> stage, exit |-> status, message |-> message,
     BelovedFunctionality |-> beloved]

\* Mutant of _input_handler: the parsed values are stored before they are checked.
_input_handler_StoreFirst(beloved, options, conversions, cls, argv) ==
    IF HelpRequested(cls.HelpOnNoArguments, argv)
    THEN Exit(beloved, "help", -1, [kind |-> "usage", arg |-> None])
    ELSE LET p == parse_args(Defaults(options), <<>>, argv)
             omitted == MissingRequired(options, p.opts)
         IN  IF PositionalDetected(cls.DisallowPositionalArguments, p.args)
             THEN Exit(p.opts, "positional", 2, PositionalMessage(p.args))
             ELSE IF omitted # <<>>
             THEN Exit(p.opts, "required", 2,
                       [kind |-> "required_omitted", arg |-> <<omitted[1]>>])
             ELSE LET t == ApplyInHandlers(StoreParsed(beloved, p.opts), conversions)
                  IN  [status |-> t.status, stage |-> "transform", exit |-> 0,
                       message |-> NoMessage,
                       BelovedFunctionality |-> t.BelovedFunctionality]

\* _input_handler (lines 206-265).
_input_handler(beloved, options, conversions, cls, argv) ==
    IF HelpRequested(cls.HelpOnNoArguments, argv)
    THEN Exit(beloved, "help", -1, [kind |-> "usage", arg |-> None])
    ELSE LET p == parse_args(Defaults(options), <<>>, argv)
             omitted == MissingRequired(options, p.opts)
         IN  IF PositionalDetected(cls.DisallowPositionalArguments, p.args)
             THEN Exit(beloved, "positional", 2, PositionalMessage(p.args))
             ELSE IF omitted # <<>>
             THEN Exit(beloved, "required", 2,
                       [kind |-> "required_omitted", arg |-> <<omitted[1]>>])
             ELSE LET t == ApplyInHandlers(StoreParsed(beloved, p.opts), conversions)
                  IN  [status |-> t.status, stage |-> "transform", exit |-> 0,
                       message |-> NoMessage,
                       BelovedFunctionality |-> t.BelovedFunctionality]

\* Mutant of HandlerCall: the option value is passed unconditionally.
HandlerCall_AlwaysOption(handler, results, beloved) ==
    [key |-> handler.ResultKey, value |-> results[handler.ResultKey], nargs |-> 3,
     opt_value |-> IF handler.OptionName \in DOMAIN beloved
                   THEN beloved[handler.OptionName] ELSE None]

\* lines 310-314: the call of handler.Function.
HandlerCall(handler, results, beloved) ==
    IF handler.OptionName = NoneStr
    THEN [key |-> handler.ResultKey, value |-> results[handler.ResultKey],
          nargs |-> 2, opt_value |-> None]
    ELSE [key |-> handler.ResultKey, value |-> results[handler.ResultKey],
          nargs |-> 3, opt_value |-> beloved[handler.OptionName]]

\* line 306.
ResultMissing(k, results) ==
    k \notin DOMAIN results

\* Mutant of _output_handler: a handler whose result is missing is skipped.
RECURSIVE _output_handler_SkipMissing(_, _, _, _)
_output_handler_SkipMissing(output_map, results, beloved, calls) ==
    IF output_map = <<>> THEN [status |-> "Done", calls |-> calls]
    ELSE LET handler == Head(output_map)
         IN  IF ResultMissing(handler.ResultKey, results)
             THEN _output_handler_SkipMissing(Tail(output_map), results, beloved, calls)
             ELSE IF handler.OptionName # NoneStr /\ handler.OptionName \notin DOMAIN beloved
             THEN [status |-> "KeyError", calls |-> calls]
             ELSE _output_handler_SkipMissing(
                      Tail(output_map), results, beloved,
                      Append(calls, HandlerCall(handler, results, beloved)))

\* Mutant of _output_handler: every result key is tested before the first
\* handler is called.
_output_handler_ValidateFirst(output_map, results, beloved, calls) ==
    IF \E i \in 1..Len(output_map) : ResultMissing(output_map[i].ResultKey, results)
    THEN [status |-> "IncompetentDeveloperError", calls |-> calls]
    ELSE [status |-> "Done",
          calls |-> calls \o [i \in 1..Len(output_map) |->
                                  HandlerCall(output_map[i], results, beloved)]]

\* _output_handler (lines 303-314): the loop over the output map, calls so far
\* in calls.
RECURSIVE _output_handler(_, _, _, _)
_output_handler(output_map, results, beloved, calls) ==
    IF output_map = <<>> THEN [status |-> "Done", calls |-> calls]
    ELSE LET handler == Head(output_map)
         IN  IF ResultMissing(handler.ResultKey, results)
             THEN [status |-> "IncompetentDeveloperError", calls |-> calls]
             ELSE IF handler.OptionName # NoneStr /\ handler.OptionName \notin DOMAIN beloved
             THEN [status |-> "KeyError", calls |-> calls]
             ELSE _output_handler(Tail(output_map), results, beloved,
                                  Append(calls, HandlerCall(handler, results, beloved)))

NoInput == [isList |-> TRUE, items |-> <<>>]

NoOutcome ==
    [status |-> "none", stage |-> "none", exit |-> 0, message |-> NoMessage,
     cmd_called |-> FALSE, cmd_input |-> EmptyMap, results |-> EmptyMap,
     calls |-> <<>>, replaced |-> FALSE]

\* Interface.__call__, lines 45-46: the validator and the input handler; what
\* they leave behind, the stored parsed values included.
CallInput(beloved, options, conversions, cls, in) ==
    IF ~_the_in_validator(in)
    THEN [status |-> "IncompetentDeveloperError", stage |-> "validator", exit |-> 1,
          message |-> NoMessage, BelovedFunctionality |-> beloved]
    ELSE LET cmd_input == _input_handler(beloved, options, conversions, cls, in.items)
         IN  IF cmd_input.status = "KeyError"
             THEN [cmd_input EXCEPT !.exit = 1]
             ELSE cmd_input

\* Interface.__call__, line 47: the command called with the parsed values, its
\* results handed to the output handler.
CallOutput(cls, cmd_input, results) ==
    LET out == _output_handler(cls.output_map, results, cmd_input, <<>>)
    IN  [status |-> out.status, stage |-> "output",
         exit |-> IF out.status = "Done" THEN 0 ELSE 1,
         message |-> NoMessage, cmd_called |-> TRUE, cmd_input |-> cmd_input,
         results |-> results, calls |-> out.calls, replaced |-> FALSE]

----------------------------------------------------------------------------
(* The configurations and inputs the specifications range over *)

MaxParameters == 2

MaxArgv == 2

SeqsUpTo(S, n) == UNION {[1..k -> S] : k \in 0..n}

Names == {"a", "b"}

ResultKeys == {"r1", "r2"}

\* The command's Parameters: a required one has no default (section 4.1).
CommandParameters ==
    {p \in [Name : Names, Required : BOOLEAN, Default : {None, <<"d">>}] :
        p.Required => p.Default = None}

Conversions ==
    [Name : Names \cup {"old"}, LongName : Names, InHandler : {NoneStr, "f"}]

Standalone(name) ==
    [Parameter |-> NoneStr, LongName |-> name, Required |-> FALSE, Default |-> None]

NoConfig ==
    [CommandConstructor |-> NoneStr, Parameters |-> <<>>, usage_examples |-> <<>>,
     param_conv_info |-> <<>>, inputs |-> <<>>, additional_options |-> <<>>,
     output_map |-> <<>>, HelpOnNoArguments |-> TRUE,
     DisallowPositionalArguments |-> TRUE]

InNameOrder(s) == \A i, j \in 1..Len(s) : i < j => s[i].Name = "a"

DistinctNames(s) == \A i, j \in 1..Len(s) : s[i].Name = s[j].Name => i = j

\* Configurations construction is tried on: any parameters, repeated ones
\* included, conversion info for some of the names only, options without a
\* Parameter among the inputs and the additional options.
ConstructConfigs ==
    {[NoConfig EXCEPT !.CommandConstructor = cc, !.usage_examples = ex,
                      !.Parameters = ps, !.param_conv_info = pc,
                      !.inputs = ins, !.additional_options = add] :
        cc \in {NoneStr, "Cmd"},
        ex \in {<<>>, <<"ex">>},
        ps \in SeqsUpTo({p \in CommandParameters : p.Default = None}, MaxParameters),
        pc \in {s \in SeqsUpTo({v \in Conversions : v.InHandler = NoneStr /\ v.Name # "old"},
                               Cardinality(Names)) :
                   DistinctNames(s) /\ InNameOrder(s)},
        ins \in {<<>>, <<Standalone("verbose")>>,
                 <<Standalone("verbose"), Standalone("a")>>},
        add \in {<<>>, <<Standalone("a")>>}}

\* The conversion info of a working configuration: each parameter's flag is its
\* name (the command is called with the flags as keywords, interface.py 47),
\* with or without an input transform; "old" is an entry left over for a name
\* the command no longer has, whose flag is one of the command's.
WorkingConversions(ps) ==
    {s \in SeqsUpTo(Conversions, Len(ps) + 1) :
        /\ Len(s) >= Len(ps)
        /\ \A i \in 1..Len(ps) : s[i].Name = ps[i].Name /\ s[i].LongName = ps[i].Name
        /\ Len(s) > Len(ps) =>
              /\ s[Len(s)].Name = "old"
              /\ s[Len(s)].InHandler # NoneStr
              /\ \E i \in 1..Len(ps) : ps[i].Name = s[Len(s)].LongName}

\* Output maps: in either order, the handler of r1 tied to option a or to none.
OutputMaps(ps) ==
    {s \in SeqsUpTo([ResultKey : ResultKeys, OptionName : {NoneStr, "a"}],
                    Cardinality(ResultKeys)) :
        /\ \A i, j \in 1..Len(s) : s[i].ResultKey = s[j].ResultKey => i = j
        /\ \A i \in 1..Len(s) :
              s[i].OptionName # NoneStr =>
                  /\ s[i].ResultKey = "r1"
                  /\ \E k \in 1..Len(ps) : ps[k].Name = s[i].OptionName}

\* The conversion info and the output map a configuration has unless it varies them.
PlainConversions(ps) ==
    [i \in 1..Len(ps) |->
        [Name |-> ps[i].Name, LongName |-> ps[i].Name, InHandler |-> NoneStr]]

PlainOutputMap(ps) ==
    <<[ResultKey |-> "r1",
       OptionName |-> IF \E k \in 1..Len(ps) : ps[k].Name = "a" THEN "a" ELSE NoneStr]>>

\* What a configuration varies for given parameters: the two class attributes,
\* or the conversion info, or the output map. The order of the parameters
\* matters to the required check alone, so the last two are varied for
\* parameters in name order.
Variations(ps) ==
    ({PlainConversions(ps)} \X {PlainOutputMap(ps)} \X BOOLEAN \X BOOLEAN)
        \cup IF InNameOrder(ps)
             THEN (WorkingConversions(ps) \X {PlainOutputMap(ps)} \X {TRUE} \X {TRUE})
                      \cup ({PlainConversions(ps)} \X OutputMaps(ps) \X {TRUE} \X {TRUE})
             ELSE {}

\* Configurations an interface is invoked with: distinct flags (the parser
\* refuses to declare a flag twice), every name reference resolving to a flag,
\* an optional parameter with a default.
ReadyConfigs ==
    UNION {
      {[NoConfig EXCEPT !.CommandConstructor = "Cmd", !.usage_examples = <<"ex">>,
                        !.Parameters = ps, !.param_conv_info = v[1],
                        !.output_map = v[2], !.HelpOnNoArguments = v[3],
                        !.DisallowPositionalArguments = v[4]] :
          v \in Variations(ps)} :
      ps \in {s \in SeqsUpTo({p \in CommandParameters : p.Required \/ p.Default # None},
                             MaxParameters) : DistinctNames(s)}}

\* What can be passed to __call__: something that is no list, or a list of
\* tokens: "--name=x" for a declared flag, or a bare token.
Tokens(options) ==
    {[opt |-> dest(options[i]), val |-> <<"x">>] : i \in 1..Len(options)}
        \cup {[opt |-> NoneStr, val |-> <<s>>] : s \in {"s1", "s2"}}

Inputs(options) ==
    {[isList |-> FALSE, items |-> <<>>]}
        \cup {[isList |-> TRUE, items |-> s] : s \in SeqsUpTo(Tokens(options), MaxArgv)}

\* What the command can return: any subset of the result keys.
ResultMappings ==
    {[k \in S |-> <<"data", k>>] : S \in SUBSET ResultKeys}

----------------------------------------------------------------------------
(* Actions and specifications *)

InstanceIs(obj) ==
    /\ built = [status |-> obj.status, error |-> obj.error, steps |-> obj.steps,
                inputs |-> obj.inputs]
    /\ Options = obj.Options
    /\ UsageExamples = obj.UsageExamples
    /\ ParameterConversionInfo = obj.ParameterConversionInfo
    /\ CmdInstance = obj.CmdInstance
    /\ BelovedFunctionality = obj.BelovedFunctionality

\* interface_object(): CLInterface.__init__ on one configuration.
Construct ==
    /\ built.status = "none"
    /\ \E c \in ConstructConfigs :
          LET obj == CLInterfaceInit(c)
          IN  /\ config' = c
              /\ built' = [status |-> obj.status, error |-> obj.error,
                            steps |-> obj.steps, inputs |-> obj.inputs]
              /\ Options' = obj.Options
              /\ UsageExamples' = obj.UsageExamples
              /\ ParameterConversionInfo' = obj.ParameterConversionInfo
              /\ CmdInstance' = obj.CmdInstance
              /\ BelovedFunctionality' = obj.BelovedFunctionality
    /\ UNCHANGED <<in_, outcome, optArgs, option>>

\* cli_cmd(argv): Interface.__call__ (pyqi/core/interface.py 44-47) on a
\* constructed interface; the command returns any of ResultMappings.
Call ==
    /\ built.status = "ok"
    /\ \E in \in Inputs(Options) :
          LET r == CallInput(BelovedFunctionality, Options, ParameterConversionInfo,
                             config, in)
          IN  /\ in_' = in
              /\ BelovedFunctionality' = r.BelovedFunctionality
              /\ IF r.status # "ok"
                 THEN outcome' = [NoOutcome EXCEPT !.status = r.status,
                                                   !.stage = r.stage,
                                                   !.exit = r.exit,
                                                   !.message = r.message]
                 ELSE \E results \in ResultMappings :
                         outcome' =
                             [CallOutput(config, r.BelovedFunctionality, results)
                                 EXCEPT !.replaced =
                                     /\ BelovedFunctionality # EmptyMap
                                     /\ BelovedFunctionality # r.BelovedFunctionality]
    /\ UNCHANGED <<config, built, Options, UsageExamples, ParameterConversionInfo,
                   CmdInstance, optArgs, option>>

InitOption ==
    /\ optArgs = NoArgs
    /\ option = NoOption
    /\ config = NoConfig
    /\ InstanceIs(Unbuilt)
    /\ in_ = NoInput
    /\ outcome = NoOutcome

InitConstruct == InitOption

\* The state after construction: an interface that CLInterface.__init__ built.
Init ==
    /\ optArgs = NoArgs
    /\ option = NoOption
    /\ config \in ReadyConfigs
    /\ InstanceIs(CLInterfaceInit(config))
    /\ built.status = "ok"
    /\ in_ = NoInput
    /\ outcome = NoOutcome

Next == Call

NextConstruct == Construct

NextOption == ConstructOption

Spec == Init /\ [][Next]_vars

SpecConstruct == InitConstruct /\ [][NextConstruct]_vars

SpecOption == InitOption /\ [][NextOption]_vars

----------------------------------------------------------------------------
(* Claims about InterfaceOption.__init__, under SpecOption *)

OptionBuilt == option.status # "none"

HasParameter == optArgs.Parameter # NoParameter

\* The Required flag and the Default the claims speak of, from the arguments.
ResultingRequired ==
    IF HasParameter THEN optArgs.Parameter.Required \/ optArgs.Required
    ELSE optArgs.Required

ResultingDefault ==
    IF HasParameter /\ optArgs.Default = None THEN optArgs.Parameter.Default
    ELSE optArgs.Default

\* C2: every option that is constructed has Required => Default is None, and a
\* construction whose resulting Required is true and whose resulting Default
\* (inherited or overriding) is not None fails with a configuration error,
\* whatever the Parameter's Required and Default and the two overrides are.
C2_RequiredNeverDefaulted ==
    OptionBuilt =>
        /\ option.status = "ok" =>
              /\ option.self.Required => option.self.Default = None
              /\ ~(ResultingRequired /\ ResultingDefault # None)
        /\ (ResultingRequired /\ ResultingDefault # None) =>
              option.status = "IncompetentDeveloperError"
        /\ option.error = "required_with_default" =>
              /\ option.self.Required = ResultingRequired
              /\ option.self.Default = ResultingDefault
              /\ ResultingRequired /\ ResultingDefault # None

\* An optional Parameter with a default, made required by the override alone:
\* the inherited default makes the construction fail.
C2_Witness ==
    /\ HasParameter
    /\ ~optArgs.Parameter.Required /\ optArgs.Required
    /\ optArgs.Parameter.Default # None /\ optArgs.Default = None
    /\ option.status = "IncompetentDeveloperError"
    /\ option.error = "required_with_default"

\* C11: for an option built from a Parameter, the option's Required flag equals
\* (Parameter.Required OR the Required override): a required Parameter yields a
\* required option even when the override says optional, an optional Parameter
\* with the override set yields a required option, and only an optional
\* Parameter without the override yields an optional option.
C11_RequiredIsDisjunction ==
    (OptionBuilt /\ HasParameter) =>
        /\ option.self.Required = (optArgs.Parameter.Required \/ optArgs.Required)
        /\ optArgs.Parameter.Required => option.self.Required
        /\ (~optArgs.Parameter.Required /\ optArgs.Required) => option.self.Required
        /\ ~option.self.Required <=> (~optArgs.Parameter.Required /\ ~optArgs.Required)

\* An optional Parameter without a default, made required by the override: the
\* option is constructed and is required.
C11_Witness ==
    /\ HasParameter
    /\ ~optArgs.Parameter.Required /\ optArgs.Required
    /\ option.status = "ok"
    /\ option.self.Required

----------------------------------------------------------------------------
(* Claims about the construction of an Interface, under SpecConstruct *)

Constructed == built.status # "none"

ConfigurationError == built.status = "IncompetentDeveloperError"

\* Two of the options handed to _validate_inputs come from a Parameter of the
\* same name.
SameParameterTwice(inputs) ==
    \E i, j \in 1..Len(inputs) :
        /\ i # j
        /\ inputs[i].Parameter # NoneStr
        /\ inputs[i].Parameter = inputs[j].Parameter

\* C3: a list of options with two options derived from a Parameter of the same
\* name makes the construction fail with a configuration error; options without
\* a Parameter are not duplicates of each other; a list with pairwise distinct
\* parameter names passes the check.
C3_DuplicateParameterRejected ==
    /\ (Constructed /\ ~DistinctNames(config.Parameters)) => ConfigurationError
    /\ (Constructed /\ Len(built.steps) > 0 /\ built.steps[Len(built.steps)] = "validate_inputs") =>
          /\ ConfigurationError
          /\ built.error = "duplicate_parameter"
          /\ SameParameterTwice(built.inputs)
    /\ (Constructed /\ SameParameterTwice(built.inputs)) =>
          /\ ConfigurationError
          /\ built.error = "duplicate_parameter"
    /\ built.status = "ok" =>
          /\ ~SameParameterTwice(built.inputs)
          /\ Options = built.inputs \o config.additional_options

\* The same Parameter twice, beside two options that have none.
C3_Witness ==
    /\ built.error = "duplicate_parameter"
    /\ Len(config.Parameters) = 2
    /\ config.Parameters[1].Name = config.Parameters[2].Name
    /\ Len(config.inputs) = 2

\* Nothing of the instance beyond the usage examples has been set up.
OnlyUsageExamplesCollected ==
    /\ built.steps = <<"usage_examples">>
    /\ ParameterConversionInfo = <<>>
    /\ CmdInstance = NoneStr
    /\ built.inputs = <<>>
    /\ Options = <<>>

\* C12: construction fails with a configuration error whenever the collection
\* of usage examples is empty, and it fails before the conversion registry is
\* built, before the command is constructed and before any option is built or
\* validated; with at least one usage example the check passes and the
\* construction goes on to build the registry.
C12_UsageExamplesCheckedFirst ==
    Constructed =>
        /\ config.usage_examples = <<>> =>
              /\ ConfigurationError
              /\ built.error = "no_usage_examples"
              /\ OnlyUsageExamplesCollected
        /\ config.usage_examples # <<>> =>
              /\ built.error # "no_usage_examples"
              /\ Len(built.steps) >= 2
              /\ built.steps[1] = "usage_examples"
              /\ built.steps[2] = "conversion_info"
              /\ ParameterConversionInfo # <<>>

\* No usage examples in a configuration that also lacks a command constructor
\* and repeats a parameter: the missing usage examples are what is reported.
C12_Witness ==
    /\ built.error = "no_usage_examples"
    /\ config.CommandConstructor = NoneStr
    /\ ~DistinctNames(config.Parameters)
    /\ OnlyUsageExamplesCollected

\* Two options of the list have the same long flag.
SameFlagTwice(options) ==
    \E i, j \in 1..Len(options) :
        i # j /\ options[i].LongName = options[j].LongName

\* C13 as claimed: after a successful construction no two options of the
\* option list have the same name (long flag), the options derived from the
\* command's parameters and the stand-alone options appended at the end of the
\* construction counted alike.
C13_AsClaimed ==
    built.status = "ok" => ~SameFlagTwice(Options)

----------------------------------------------------------------------------
(* Claims about Interface.__call__, under Spec *)

Called == outcome.status # "none"

argv == in_.items

Supplied(n) == \E i \in 1..Len(argv) : argv[i].opt = n

\* The value of the last "--n=value" of argv.
LastSupplied(n) ==
    argv[CHOOSE i \in 1..Len(argv) :
            /\ argv[i].opt = n
            /\ \A j \in (i+1)..Len(argv) : argv[j].opt # n].val

\* The tokens of argv that belong to no option, in order.
Strays ==
    LET bare == SelectSeq(argv, LAMBDA t : t.opt = NoneStr)
    IN  [i \in 1..Len(bare) |-> bare[i].val]

OptionOf(n) == Options[CHOOSE i \in 1..Len(Options) : Options[i].LongName = n]

\* What parsing argv yields for flag n: the value supplied last, or the
\* option's default (none for a required option).
RawValue(n) ==
    IF Supplied(n) THEN LastSupplied(n)
    ELSE IF OptionOf(n).Required THEN None ELSE OptionOf(n).Default

Omitted(i) == Options[i].Required /\ ~Supplied(Options[i].LongName)

SomeOmitted == \E i \in 1..Len(Options) : Omitted(i)

FirstOmitted == CHOOSE i \in 1..Len(Options) : Omitted(i) /\ \A j \in 1..(i-1) : ~Omitted(j)

SomeRequired == \E i \in 1..Len(Options) : Options[i].Required

HelpShortCircuit == config.HelpOnNoArguments /\ argv = <<>>

StrayRejected == config.DisallowPositionalArguments /\ Strays # <<>>

UsageError == outcome.status = "Aborted" /\ outcome.exit # 0 /\ ~outcome.cmd_called

OmittedMessage(i) == [kind |-> "required_omitted", arg |-> <<Options[i].LongName>>]

\* C1 as claimed: whenever argv omits a required option the call aborts with a
\* usage error naming that option; whenever argv supplies every required option
\* and holds no stray token the command is invoked.
C1_AsClaimed ==
    (Called /\ in_.isList) =>
        /\ \A i \in 1..Len(Options) :
              Omitted(i) => UsageError /\ outcome.message = OmittedMessage(i)
        /\ (SomeRequired /\ ~SomeOmitted /\ Strays = <<>>) => outcome.cmd_called

\* C1, amended: whenever argv omits a required option the call aborts with a
\* non-zero exit and the command is not invoked; the usage error names the first
\* omitted required option, in the order of the options, unless the call ended
\* before the check (help on an empty argv, a rejected stray token); whenever
\* argv supplies every required option and holds no stray token the command is
\* invoked.
C1_RequiredEnforced ==
    (Called /\ in_.isList) =>
        /\ SomeOmitted => UsageError
        /\ (SomeOmitted /\ ~HelpShortCircuit /\ ~StrayRejected) =>
              /\ outcome.stage = "required"
              /\ outcome.exit = 2
              /\ outcome.message = OmittedMessage(FirstOmitted)
        /\ outcome.message.kind = "required_omitted" => SomeOmitted
        /\ (SomeRequired /\ ~SomeOmitted /\ Strays = <<>>) => outcome.cmd_called

\* Two required options, both omitted, and the check reached: the first is named.
C1_Witness ==
    /\ Called /\ in_.isList
    /\ Len(Options) = 2 /\ Omitted(1) /\ Omitted(2)
    /\ Options[1].LongName = "b"
    /\ outcome.message = OmittedMessage(1)
    /\ UsageError

\* f(f(...(v))) stripped of its transforms.
RECURSIVE Base(_)
Base(v) == IF v # <<>> /\ Head(v) = "f" THEN Base(Tail(v)) ELSE v

HandlerOf(call) ==
    config.output_map[CHOOSE i \in 1..Len(config.output_map) :
                         config.output_map[i].ResultKey = call.key]

Dispatching == outcome.cmd_called

MissingResult(i) == config.output_map[i].ResultKey \notin DOMAIN outcome.results

SomeResultMissing == \E i \in 1..Len(config.output_map) : MissingResult(i)

\* C5: when the command has returned and some registered output handler's
\* result key is absent from the results, the call fails with a configuration
\* error and does not end in Done.
C5_MissingResultIsFatal ==
    (Dispatching /\ SomeResultMissing) =>
        /\ outcome.status = "IncompetentDeveloperError"
        /\ outcome.status # "Done"
        /\ outcome.exit # 0

\* Two handlers, the first served, the result of the second missing.
C5_Witness ==
    /\ Dispatching
    /\ Len(config.output_map) = 2
    /\ ~MissingResult(1) /\ MissingResult(2)
    /\ outcome.status = "IncompetentDeveloperError"

\* The call handler i is to get.
ExpectedCall(i) ==
    LET h == config.output_map[i]
    IN  IF h.OptionName = NoneStr
        THEN [key |-> h.ResultKey, value |-> outcome.results[h.ResultKey],
              nargs |-> 2, opt_value |-> None]
        ELSE [key |-> h.ResultKey, value |-> outcome.results[h.ResultKey],
              nargs |-> 3, opt_value |-> outcome.cmd_input[h.OptionName]]

FirstMissing ==
    CHOOSE i \in 1..Len(config.output_map) :
        MissingResult(i) /\ \A j \in 1..(i - 1) : ~MissingResult(j)

\* C14 as claimed: when some registered handler's result key is missing from
\* the command's results, so that dispatch ends in a configuration error, no
\* output handler has been called in that call, whatever the iteration order
\* of the handler map.
C14_AsClaimed ==
    (Dispatching /\ SomeResultMissing) => outcome.calls = <<>>

\* C14, amended: when some registered handler's result key is missing, dispatch
\* ends in a configuration error at the first such handler in iteration order;
\* every handler before it has been called exactly once, with its arguments,
\* and that handler and those after it have not been called. No handler has
\* been called only when the first handler of the map is the one whose key is
\* missing.
C14_HandlersBeforeFirstMissing ==
    (Dispatching /\ SomeResultMissing) =>
        /\ outcome.status = "IncompetentDeveloperError"
        /\ Len(outcome.calls) = FirstMissing - 1
        /\ \A j \in 1..(FirstMissing - 1) : outcome.calls[j] = ExpectedCall(j)
        /\ outcome.calls = <<>> <=> MissingResult(1)

\* The handler of r2 iterated first and served, the result of r1 missing: one
\* call has been made when the error is raised.
C14_Witness ==
    /\ Dispatching
    /\ Len(config.output_map) = 2
    /\ config.output_map[1].ResultKey = "r2"
    /\ MissingResult(2)
    /\ outcome.status = "IncompetentDeveloperError"
    /\ Len(outcome.calls) = 1
    /\ outcome.calls[1].key = "r2"

\* C7: with positional arguments disallowed, an argv that leaves a positional
\* token aborts with a non-zero exit and a usage error echoing the first such
\* token, and the command is not invoked, whether or not the required options
\* were supplied.
C7_PositionalRejected ==
    (Called /\ in_.isList /\ StrayRejected) =>
        /\ UsageError
        /\ outcome.stage = "positional"
        /\ outcome.message = [kind |-> "positional_argument", arg |-> Strays[1]]
        /\ outcome.calls = <<>>

\* Two different stray tokens and a required option left out.
C7_Witness ==
    /\ Called /\ StrayRejected
    /\ Strays = << <<"s2">>, <<"s1">> >>
    /\ SomeOmitted
    /\ outcome.message.arg = <<"s2">>

\* C8: on the empty argument list, an interface with help-on-empty prints the
\* usage and aborts with a non-zero status, the command not invoked and no
\* output handler called; without help-on-empty the empty list is parsed and
\* validated instead.
C8_HelpOnEmpty ==
    (Called /\ in_.isList /\ argv = <<>>) =>
        IF config.HelpOnNoArguments
        THEN /\ UsageError
             /\ outcome.stage = "help"
             /\ outcome.message.kind = "usage"
             /\ outcome.calls = <<>>
        ELSE /\ outcome.stage # "help"
             /\ outcome.message.kind # "usage"
             /\ SomeRequired =>
                   outcome.stage = "required" /\ outcome.message.kind = "required_omitted"
             /\ ~SomeRequired => outcome.cmd_called

\* Help printed by an interface that has a required option.
C8_Witness ==
    /\ Called /\ in_.isList /\ argv = <<>>
    /\ config.HelpOnNoArguments /\ SomeRequired
    /\ outcome.stage = "help" /\ outcome.exit = -1

AbortedBeforeInvoking(o) ==
    /\ o.status \in {"Aborted", "IncompetentDeveloperError"}
    /\ o.stage \in {"validator", "help", "positional", "required"}

\* C9: a call that aborts before the command is invoked (an input that is no
\* list, help on empty, a stray positional token, a missing required option)
\* leaves the interface's stored state, the stored parsed values included,
\* exactly as it was before the call.
C9_AbortLeavesStateAlone ==
    [][AbortedBeforeInvoking(outcome') =>
          /\ BelovedFunctionality' = BelovedFunctionality
          /\ UNCHANGED <<config, built, Options, UsageExamples,
                         ParameterConversionInfo, CmdInstance>>]_vars

\* An abort on a missing required option while values of an earlier call are stored.
C9_Witness ==
    /\ AbortedBeforeInvoking(outcome)
    /\ outcome.stage = "required"
    /\ BelovedFunctionality # EmptyMap

InHandlersFor(n) ==
    {i \in 1..Len(ParameterConversionInfo) :
        /\ ParameterConversionInfo[i].LongName = n
        /\ ParameterConversionInfo[i].InHandler # NoneStr}

\* C10 as claimed: in a call that invokes the command, every parsed value with
\* a registered input transform reaches the command transformed exactly once,
\* and every other value unchanged, whatever the conversion registry is.
C10_AsClaimed ==
    outcome.cmd_called =>
        \A n \in DOMAIN outcome.cmd_input :
            IF InHandlersFor(n) = {}
            THEN outcome.cmd_input[n] = RawValue(n)
            ELSE \E i \in InHandlersFor(n) :
                    outcome.cmd_input[n]
                        = Apply(ParameterConversionInfo[i].InHandler, RawValue(n))

====
